---------------------------- MODULE Spec2Model ----------------------------
(***************************************************************************)
(* Session manager of CarbonWatch (src/lib/auth.tsx, AuthProvider), with    *)
(* its consumers: the route guards, the API client (lib/api.ts), the event  *)
(* bus and the dashboard pages.                                             *)
(*                                                                         *)
(* State: the three localStorage keys, the React state of AuthProvider     *)
(* (user, token, isLoading), the transport requests that are awaiting      *)
(* their response, the API client's cached token, the listeners of the     *)
(* event bus and the React state of DetailsPage.  Every async operation is *)
(* one action up to its `await fetch(...)` and one action for the          *)
(* continuation that runs when the transport settles; synchronous handlers *)
(* are one action, together with the effects of the renders they cause.    *)
(***************************************************************************)
EXTENDS Naturals, Sequences, FiniteSets, Bags, TLC

VARIABLES
    storage,    \* localStorage: accessToken, refreshToken, user (string or NULL)
    token,      \* useState token
    user,       \* useState user
    isLoading,  \* useState isLoading
    inflight,   \* bag of transport requests whose promise has not settled
    event,      \* the handler step that ran last, with the transport outcome it saw
    ret,        \* <<v>> when that step returned v to its caller, << >> otherwise
    pushed,     \* routes given to router.push by that step, in order
    fetches,    \* number of fetch() calls made by that step
    pre,        \* storage, token and user as they were when that step began
    accessToken,        \* lib/api.ts: the module-level `let accessToken`
    route,              \* the dashboard page that is mounted, or NULL
    listeners,          \* window's listeners for "transactions-updated", in order
    invoked,            \* the listeners that step invoked, in order
    currentPage,        \* DetailsPage useState currentPage
    activeFilter,       \* DetailsPage useState activeFilter
    timeFilter,         \* DetailsPage useState timeFilter
    totalTransactions,  \* DetailsPage useState totalTransactions
    transactions,       \* DetailsPage useState transactions, as the request they answer
    issued,             \* number of /transactions requests DetailsPage has sent
    subscriptions       \* number of onTransactionsUpdated calls made so far

\* the API client's module state
apiVars == <<accessToken>>

\* the state of the dashboard pages and of the event bus
pageVars ==
    <<route, listeners, invoked, currentPage, activeFilter, timeFilter,
      totalTransactions, transactions, issued, subscriptions>>

vars ==
    <<storage, token, user, isLoading, inflight, event, ret, pushed, fetches, pre,
      apiVars, pageVars>>

-----------------------------------------------------------------------------
(* Bounds *)

MaxInflight == 2

\* /transactions requests of DetailsPage per page load
MaxIssued == 4

\* onTransactionsUpdated calls per page load
MaxSubscriptions == 2

-----------------------------------------------------------------------------
(* Values *)

\* what localStorage.getItem returns for a missing key; also the JS null of useState
NULL == "null"

Tokens == {"T1", "T2"}
RefreshTokens == {"R1", "R2"}
\* user objects {id, email, name}, named by their id
Users == {"u1", "u2"}

\* a stored user string that is not JSON
CorruptUser == "{id:"

Truthy(v) == v \notin {NULL, ""}

Or(a, b) == IF Truthy(a) THEN a ELSE b

\* JSON.stringify(data.user): the JSON text of the user object
JSONstringify(u) ==
    CASE u = "u1" -> "{id:1,email:a@b.com,name:A}"
      [] u = "u2" -> "{id:2,email:c@d.com,name:C}"

\* JSON.parse(storedUser): the object, or SyntaxError when the text is not JSON
SyntaxError == "SyntaxError"

JSONparse(s) ==
    CASE s = "{id:1,email:a@b.com,name:A}" -> "u1"
      [] s = "{id:2,email:c@d.com,name:C}" -> "u2"
      [] OTHER -> SyntaxError

NoSession == [accessToken |-> NULL, refreshToken |-> NULL, user |-> NULL]

Snapshot == [storage |-> storage, token |-> token, user |-> user]

isAuthenticated == Truthy(token)

\* the landing page's own check: !!localStorage.getItem("accessToken")
HomeIsAuthenticated == Truthy(storage["accessToken"])

-----------------------------------------------------------------------------
(* Transport outcomes *)

NetworkError == [net |-> "error"]

\* a response whose body is not JSON: response.json() rejects
Unreadable(ok) == [net |-> "response", ok |-> ok, json |-> FALSE]

Readable(ok, data) == [net |-> "response", ok |-> ok, json |-> TRUE, data |-> data]

AuthData == [access_token : Tokens, refresh_token : RefreshTokens, user : Users]

RefreshData == [access_token : Tokens]

ErrorData == [detail : {NULL, "detail from server"}]

AuthOutcomes ==
    {NetworkError} \cup {Unreadable(ok) : ok \in BOOLEAN}
        \cup {Readable(TRUE, d) : d \in AuthData}
        \cup {Readable(FALSE, d) : d \in ErrorData}

RefreshOutcomes ==
    {NetworkError} \cup {Unreadable(ok) : ok \in BOOLEAN}
        \cup {Readable(TRUE, d) : d \in RefreshData}
        \cup {Readable(FALSE, d) : d \in ErrorData}

Statuses == {200, 401, 500}

FetchOutcomes ==
    {NetworkError} \cup {[net |-> "response", status |-> s] : s \in Statuses}

Throws(o) == o.net = "error" \/ ~o.json

Send(req) == inflight (+) SetToBag({req})

Settle(req) == inflight (-) SetToBag({req})

CanSend == BagCardinality(inflight) < MaxInflight


-----------------------------------------------------------------------------
(* localStorage *)

getItem(s, k) == s[k]

setItem(s, k, v) == [s EXCEPT ![k] = v]

removeItem(s, k) == [s EXCEPT ![k] = NULL]

\* what a completed login or register leaves in storage
PersistedSessions ==
    {[accessToken |-> d.access_token, refreshToken |-> d.refresh_token,
      user |-> JSONstringify(d.user)] : d \in AuthData}

\* the same, with a user record that does not parse (the case the mount
\* effect's catch handles)
DamagedSessions == {setItem(s, "user", CorruptUser) : s \in PersistedSessions}

\* what the API client's setAccessToken(null) leaves of either: the access
\* token key is removed, the refresh token and the user record stay
SignedOutByApiClient ==
    {removeItem(s, "accessToken") : s \in PersistedSessions \cup DamagedSessions}

-----------------------------------------------------------------------------
(* Handlers of AuthProvider.  Each states the effect of the handler's body  *)
(* on storage, token, user, ret and pushed.                                 *)

\* handleUnauthorized that leaves the refresh token in storage
handleUnauthorized_keepsRefreshToken ==
    /\ storage' = removeItem(removeItem(storage, "accessToken"), "user")
    /\ token' = NULL
    /\ user' = NULL
    /\ pushed' = <<"/">>

\* handleUnauthorized that pushes the route twice
handleUnauthorized_pushesTwice ==
    /\ storage' = removeItem(removeItem(removeItem(storage, "accessToken"),
                                        "refreshToken"), "user")
    /\ token' = NULL
    /\ user' = NULL
    /\ pushed' = <<"/", "/">>

handleUnauthorized ==
    /\ storage' = removeItem(removeItem(removeItem(storage, "accessToken"),
                                        "refreshToken"), "user")
    /\ token' = NULL
    /\ user' = NULL
    /\ pushed' = <<"/">>

\* logout that resets the React state and leaves storage alone
logout_memoryOnly ==
    /\ UNCHANGED storage
    /\ token' = NULL
    /\ user' = NULL
    /\ pushed' = <<"/">>

\* logout that leaves the refresh token in storage
logout_keepsRefreshToken ==
    /\ storage' = removeItem(removeItem(storage, "accessToken"), "user")
    /\ token' = NULL
    /\ user' = NULL
    /\ pushed' = <<"/">>

logout ==
    /\ storage' = removeItem(removeItem(removeItem(storage, "accessToken"),
                                        "refreshToken"), "user")
    /\ token' = NULL
    /\ user' = NULL
    /\ pushed' = <<"/">>

\* login without the catch: what fetch or response.json() throws escapes
login_noCatch(o) ==
    /\ pushed' = << >>
    /\ IF Throws(o)
       THEN /\ ret' = <<[threw |-> "TypeError"]>>
            /\ UNCHANGED <<storage, token, user>>
       ELSE IF o.ok
       THEN /\ storage' = setItem(setItem(setItem(storage,
                              "accessToken", o.data.access_token),
                              "refreshToken", o.data.refresh_token),
                              "user", JSONstringify(o.data.user))
            /\ token' = o.data.access_token
            /\ user' = o.data.user
            /\ ret' = <<[success |-> TRUE]>>
       ELSE /\ ret' = <<[success |-> FALSE,
                         error |-> Or(o.data.detail, "Invalid email or password")]>>
            /\ UNCHANGED <<storage, token, user>>

\* login that does not store the refresh token of the response
login_keepsOldRefreshToken(o) ==
    /\ pushed' = << >>
    /\ IF Throws(o)
       THEN /\ ret' = <<[success |-> FALSE, error |-> "Network error. Please try again."]>>
            /\ UNCHANGED <<storage, token, user>>
       ELSE IF o.ok
       THEN /\ storage' = setItem(setItem(storage,
                              "accessToken", o.data.access_token),
                              "user", JSONstringify(o.data.user))
            /\ token' = o.data.access_token
            /\ user' = o.data.user
            /\ ret' = <<[success |-> TRUE]>>
       ELSE /\ ret' = <<[success |-> FALSE,
                         error |-> Or(o.data.detail, "Invalid email or password")]>>
            /\ UNCHANGED <<storage, token, user>>

\* login, from the settling of fetch(`${API_URL}/auth/login`) on
login(o) ==
    /\ pushed' = << >>
    /\ IF Throws(o)
       THEN /\ ret' = <<[success |-> FALSE, error |-> "Network error. Please try again."]>>
            /\ UNCHANGED <<storage, token, user>>
       ELSE IF o.ok
       THEN /\ storage' = setItem(setItem(setItem(storage,
                              "accessToken", o.data.access_token),
                              "refreshToken", o.data.refresh_token),
                              "user", JSONstringify(o.data.user))
            /\ token' = o.data.access_token
            /\ user' = o.data.user
            /\ ret' = <<[success |-> TRUE]>>
       ELSE /\ ret' = <<[success |-> FALSE,
                         error |-> Or(o.data.detail, "Invalid email or password")]>>
            /\ UNCHANGED <<storage, token, user>>

\* register that drops the session when the server rejects
register_clearsOnReject(o) ==
    /\ pushed' = << >>
    /\ IF Throws(o)
       THEN /\ ret' = <<[success |-> FALSE, error |-> "Network error. Please try again."]>>
            /\ UNCHANGED <<storage, token, user>>
       ELSE IF o.ok
       THEN /\ storage' = setItem(setItem(setItem(storage,
                              "accessToken", o.data.access_token),
                              "refreshToken", o.data.refresh_token),
                              "user", JSONstringify(o.data.user))
            /\ token' = o.data.access_token
            /\ user' = o.data.user
            /\ ret' = <<[success |-> TRUE]>>
       ELSE /\ ret' = <<[success |-> FALSE,
                         error |-> Or(o.data.detail, "Registration failed")]>>
            /\ storage' = NoSession
            /\ token' = NULL
            /\ user' = NULL

\* register that installs the session in storage only
register_storageOnly(o) ==
    /\ pushed' = << >>
    /\ IF Throws(o)
       THEN /\ ret' = <<[success |-> FALSE, error |-> "Network error. Please try again."]>>
            /\ UNCHANGED <<storage, token, user>>
       ELSE IF o.ok
       THEN /\ storage' = setItem(setItem(setItem(storage,
                              "accessToken", o.data.access_token),
                              "refreshToken", o.data.refresh_token),
                              "user", JSONstringify(o.data.user))
            /\ ret' = <<[success |-> TRUE]>>
            /\ UNCHANGED <<token, user>>
       ELSE /\ ret' = <<[success |-> FALSE,
                         error |-> Or(o.data.detail, "Registration failed")]>>
            /\ UNCHANGED <<storage, token, user>>

\* register, from the settling of fetch(`${API_URL}/auth/register`) on
register(o) ==
    /\ pushed' = << >>
    /\ IF Throws(o)
       THEN /\ ret' = <<[success |-> FALSE, error |-> "Network error. Please try again."]>>
            /\ UNCHANGED <<storage, token, user>>
       ELSE IF o.ok
       THEN /\ storage' = setItem(setItem(setItem(storage,
                              "accessToken", o.data.access_token),
                              "refreshToken", o.data.refresh_token),
                              "user", JSONstringify(o.data.user))
            /\ token' = o.data.access_token
            /\ user' = o.data.user
            /\ ret' = <<[success |-> TRUE]>>
       ELSE /\ ret' = <<[success |-> FALSE,
                         error |-> Or(o.data.detail, "Registration failed")]>>
            /\ UNCHANGED <<storage, token, user>>

\* refreshToken that only reports a rejection
refreshToken_noLogoutOnReject(o) ==
    IF Throws(o) \/ ~o.ok
    THEN /\ ret' = <<FALSE>>
         /\ pushed' = << >>
         /\ UNCHANGED <<storage, token, user>>
    ELSE /\ storage' = setItem(storage, "accessToken", o.data.access_token)
         /\ token' = o.data.access_token
         /\ ret' = <<TRUE>>
         /\ pushed' = << >>
         /\ UNCHANGED user

\* refreshToken that updates storage but not the token state
refreshToken_storageOnly(o) ==
    IF Throws(o)
    THEN /\ ret' = <<FALSE>>
         /\ pushed' = << >>
         /\ UNCHANGED <<storage, token, user>>
    ELSE IF o.ok
    THEN /\ storage' = setItem(storage, "accessToken", o.data.access_token)
         /\ ret' = <<TRUE>>
         /\ pushed' = << >>
         /\ UNCHANGED <<token, user>>
    ELSE /\ logout
         /\ ret' = <<FALSE>>

\* refreshToken, from the settling of fetch(`${API_URL}/auth/refresh`) on
refreshToken(o) ==
    IF Throws(o)
    THEN /\ ret' = <<FALSE>>
         /\ pushed' = << >>
         /\ UNCHANGED <<storage, token, user>>
    ELSE IF o.ok
    THEN /\ storage' = setItem(storage, "accessToken", o.data.access_token)
         /\ token' = o.data.access_token
         /\ ret' = <<TRUE>>
         /\ pushed' = << >>
         /\ UNCHANGED user
    ELSE /\ logout
         /\ ret' = <<FALSE>>

\* authFetch, from the settling of its fetch(url, ...) on
authFetch(o) ==
    IF o.net = "error"
    THEN /\ ret' = <<[threw |-> "TypeError"]>>
         /\ pushed' = << >>
         /\ UNCHANGED <<storage, token, user>>
    ELSE /\ IF o.status = 401
            THEN handleUnauthorized
            ELSE /\ pushed' = << >>
                 /\ UNCHANGED <<storage, token, user>>
         /\ ret' = <<o>>

\* the Authorization header authFetch builds
Authorization(currentToken) ==
    IF Truthy(currentToken) THEN <<"Bearer", currentToken>> ELSE << >>

\* { ...a, ...b }: the properties of a, then those of b over them
Spread(a, b) ==
    [k \in DOMAIN a \cup DOMAIN b |-> IF k \in DOMAIN b THEN b[k] ELSE a[k]]

\* options.headers as callers may pass it: nothing, a header of their own,
\* or an Authorization header of their own as well
CallerHeaders ==
    { [k \in {} |-> << >>],
      [k \in {"Accept"} |-> <<"application/json">>],
      [k \in {"Accept", "Authorization"} |->
          IF k = "Accept" THEN <<"application/json">> ELSE <<"Basic", "caller">>] }

-----------------------------------------------------------------------------
(* Actions *)

Init ==
    /\ storage \in ({NoSession} \cup PersistedSessions \cup DamagedSessions
                        \cup SignedOutByApiClient)
    /\ token = NULL
    /\ user = NULL
    /\ isLoading = TRUE
    /\ inflight = EmptyBag
    /\ event = [op |-> "mount", phase |-> "render", after |-> "start"]
    /\ ret = << >>
    /\ pushed = << >>
    /\ fetches = 0
    /\ pre = [storage |-> storage, token |-> NULL, user |-> NULL]
    /\ accessToken = NULL
    /\ route = NULL
    /\ listeners = << >>
    /\ invoked = << >>
    /\ currentPage = 1
    /\ activeFilter = "All"
    /\ timeFilter = "all"
    /\ totalTransactions = 0
    /\ transactions = << >>
    /\ issued = 0
    /\ subscriptions = 0

\* mount effect that returns before setIsLoading(false) when nothing is stored
InitEffect_returnsEarly ==
    /\ isLoading
    /\ LET storedToken == getItem(storage, "accessToken")
           storedUser == getItem(storage, "user")
       IN  IF Truthy(storedToken) /\ Truthy(storedUser)
           THEN /\ token' = storedToken
                /\ isLoading' = FALSE
                /\ IF JSONparse(storedUser) = SyntaxError
                   THEN /\ storage' = removeItem(storage, "user")
                        /\ UNCHANGED user
                   ELSE /\ user' = JSONparse(storedUser)
                        /\ UNCHANGED storage
           ELSE UNCHANGED <<storage, token, user, isLoading>>
    /\ event' = [op |-> "init", phase |-> "effect", after |-> event.after]
    /\ ret' = << >>
    /\ pushed' = << >>
    /\ fetches' = 0
    /\ pre' = Snapshot
    /\ UNCHANGED <<apiVars, pageVars>>
    /\ UNCHANGED inflight

\* the mount effect of AuthProvider
InitEffect ==
    /\ isLoading
    /\ LET storedToken == getItem(storage, "accessToken")
           storedUser == getItem(storage, "user")
       IN  IF Truthy(storedToken) /\ Truthy(storedUser)
           THEN /\ token' = storedToken
                /\ IF JSONparse(storedUser) = SyntaxError
                   THEN /\ storage' = removeItem(storage, "user")
                        /\ UNCHANGED user
                   ELSE /\ user' = JSONparse(storedUser)
                        /\ UNCHANGED storage
           ELSE UNCHANGED <<storage, token, user>>
    /\ isLoading' = FALSE
    /\ event' = [op |-> "init", phase |-> "effect", after |-> event.after]
    /\ ret' = << >>
    /\ pushed' = << >>
    /\ fetches' = 0
    /\ pre' = Snapshot
    /\ UNCHANGED <<apiVars, pageVars>>
    /\ UNCHANGED inflight

LoginCall ==
    /\ ~isLoading
    /\ CanSend
    /\ inflight' = Send([op |-> "login"])
    /\ event' = [op |-> "login", phase |-> "call"]
    /\ ret' = << >>
    /\ pushed' = << >>
    /\ fetches' = 1
    /\ pre' = Snapshot
    /\ UNCHANGED <<apiVars, pageVars>>
    /\ UNCHANGED <<storage, token, user, isLoading>>

LoginResponse ==
    \E o \in AuthOutcomes :
        /\ BagIn([op |-> "login"], inflight)
        /\ inflight' = Settle([op |-> "login"])
        /\ login(o)
        /\ event' = [op |-> "login", phase |-> "response", outcome |-> o]
        /\ fetches' = 0
        /\ pre' = Snapshot
        /\ UNCHANGED <<apiVars, pageVars>>
        /\ UNCHANGED isLoading

RegisterCall ==
    /\ ~isLoading
    /\ CanSend
    /\ inflight' = Send([op |-> "register"])
    /\ event' = [op |-> "register", phase |-> "call"]
    /\ ret' = << >>
    /\ pushed' = << >>
    /\ fetches' = 1
    /\ pre' = Snapshot
    /\ UNCHANGED <<apiVars, pageVars>>
    /\ UNCHANGED <<storage, token, user, isLoading>>

RegisterResponse ==
    \E o \in AuthOutcomes :
        /\ BagIn([op |-> "register"], inflight)
        /\ inflight' = Settle([op |-> "register"])
        /\ register(o)
        /\ event' = [op |-> "register", phase |-> "response", outcome |-> o]
        /\ fetches' = 0
        /\ pre' = Snapshot
        /\ UNCHANGED <<apiVars, pageVars>>
        /\ UNCHANGED isLoading

Logout ==
    /\ ~isLoading
    /\ logout
    /\ event' = [op |-> "logout", phase |-> "call"]
    /\ ret' = << >>
    /\ fetches' = 0
    /\ pre' = Snapshot
    /\ UNCHANGED <<apiVars, pageVars>>
    /\ UNCHANGED <<inflight, isLoading>>

\* refreshToken without the early return: the request is always sent
RefreshCall_noEarlyReturn ==
    /\ ~isLoading
    /\ CanSend
    /\ inflight' = Send([op |-> "refresh",
                         refresh_token |-> getItem(storage, "refreshToken")])
    /\ ret' = << >>
    /\ fetches' = 1
    /\ event' = [op |-> "refresh", phase |-> "call"]
    /\ pushed' = << >>
    /\ pre' = Snapshot
    /\ UNCHANGED <<apiVars, pageVars>>
    /\ UNCHANGED <<storage, token, user, isLoading>>

\* refreshToken up to its await: the early return, or the request
RefreshCall ==
    /\ ~isLoading
    /\ LET storedRefreshToken == getItem(storage, "refreshToken")
       IN  IF ~Truthy(storedRefreshToken)
           THEN /\ ret' = <<FALSE>>
                /\ fetches' = 0
                /\ UNCHANGED inflight
           ELSE /\ CanSend
                /\ inflight' = Send([op |-> "refresh", refresh_token |-> storedRefreshToken])
                /\ ret' = << >>
                /\ fetches' = 1
    /\ event' = [op |-> "refresh", phase |-> "call"]
    /\ pushed' = << >>
    /\ pre' = Snapshot
    /\ UNCHANGED <<apiVars, pageVars>>
    /\ UNCHANGED <<storage, token, user, isLoading>>

RefreshResponse ==
    \E r \in RefreshTokens, o \in RefreshOutcomes :
        LET req == [op |-> "refresh", refresh_token |-> r]
        IN  /\ BagIn(req, inflight)
            /\ inflight' = Settle(req)
            /\ refreshToken(o)
            /\ event' = [op |-> "refresh", phase |-> "response", outcome |-> o]
            /\ fetches' = 0
            /\ pre' = Snapshot
            /\ UNCHANGED <<apiVars, pageVars>>
            /\ UNCHANGED isLoading

\* authFetch that sends the token of the React state
AuthFetchCall_usesMemoryToken ==
    \E headers \in CallerHeaders :
        /\ ~isLoading
        /\ CanSend
        /\ LET req == [op |-> "authFetch",
                       headers |-> Spread(headers,
                           [k \in {"Authorization"} |-> Authorization(token)])]
           IN  /\ inflight' = Send(req)
               /\ event' = [op |-> "authFetch", phase |-> "call",
                            headers |-> headers, request |-> req]
        /\ ret' = << >>
        /\ pushed' = << >>
        /\ fetches' = 1
        /\ pre' = Snapshot
        /\ UNCHANGED <<apiVars, pageVars>>
        /\ UNCHANGED <<storage, token, user, isLoading>>

\* authFetch up to its await, called with options.headers = headers
AuthFetchCall ==
    \E headers \in CallerHeaders :
        /\ ~isLoading
        /\ CanSend
        /\ LET currentToken == getItem(storage, "accessToken")
               req == [op |-> "authFetch",
                       headers |-> Spread(headers,
                           [k \in {"Authorization"} |-> Authorization(currentToken)])]
           IN  /\ inflight' = Send(req)
               /\ event' = [op |-> "authFetch", phase |-> "call",
                            headers |-> headers, request |-> req]
        /\ ret' = << >>
        /\ pushed' = << >>
        /\ fetches' = 1
        /\ pre' = Snapshot
        /\ UNCHANGED <<apiVars, pageVars>>
        /\ UNCHANGED <<storage, token, user, isLoading>>

\* authFetch that sends the request again when the answer is a 401
AuthFetchResponse_retriesOn401 ==
    \E req \in BagToSet(inflight), o \in FetchOutcomes :
        /\ req.op = "authFetch"
        /\ IF o.net = "response" /\ o.status = 401
           THEN /\ inflight' = inflight
                /\ fetches' = 1
           ELSE /\ inflight' = Settle(req)
                /\ fetches' = 0
        /\ authFetch(o)
        /\ event' = [op |-> "authFetch", phase |-> "response", outcome |-> o]
        /\ pre' = Snapshot
        /\ UNCHANGED <<apiVars, pageVars>>
        /\ UNCHANGED isLoading

AuthFetchResponse ==
    \E req \in BagToSet(inflight), o \in FetchOutcomes :
        /\ req.op = "authFetch"
        /\ inflight' = Settle(req)
        /\ authFetch(o)
        /\ event' = [op |-> "authFetch", phase |-> "response", outcome |-> o]
        /\ fetches' = 0
        /\ pre' = Snapshot
        /\ UNCHANGED <<apiVars, pageVars>>
        /\ UNCHANGED isLoading

\* the page is loaded again: every module and component starts anew over the
\* same storage
Reload ==
    /\ ~isLoading
    /\ token' = NULL
    /\ user' = NULL
    /\ isLoading' = TRUE
    /\ inflight' = EmptyBag
    /\ event' = [op |-> "mount", phase |-> "render", after |-> event.op]
    /\ ret' = << >>
    /\ pushed' = << >>
    /\ fetches' = 0
    /\ pre' = [storage |-> storage, token |-> NULL, user |-> NULL]
    /\ accessToken' = NULL
    /\ route' = NULL
    /\ listeners' = << >>
    /\ invoked' = << >>
    /\ currentPage' = 1
    /\ activeFilter' = "All"
    /\ timeFilter' = "all"
    /\ totalTransactions' = 0
    /\ transactions' = << >>
    /\ issued' = 0
    /\ subscriptions' = 0
    /\ UNCHANGED storage

Next ==
    \/ InitEffect
    \/ LoginCall
    \/ LoginResponse
    \/ RegisterCall
    \/ RegisterResponse
    \/ Logout
    \/ RefreshCall
    \/ RefreshResponse
    \/ AuthFetchCall
    \/ AuthFetchResponse
    \/ Reload

Spec == Init /\ [][Next]_vars

-----------------------------------------------------------------------------
(* A second tab of the application on the same origin.  Its AuthProvider    *)
(* writes the same localStorage; this tab's React state does not follow.    *)

OtherTab ==
    /\ ~isLoading
    /\ \/ \E d \in AuthData :    \* its login or register succeeded
             storage' = setItem(setItem(setItem(storage,
                            "accessToken", d.access_token),
                            "refreshToken", d.refresh_token),
                            "user", JSONstringify(d.user))
       \/ \E d \in RefreshData : \* its refreshToken succeeded
             /\ Truthy(getItem(storage, "refreshToken"))
             /\ storage' = setItem(storage, "accessToken", d.access_token)
       \/                        \* its logout or handleUnauthorized ran
          storage' = removeItem(removeItem(removeItem(storage, "accessToken"),
                                           "refreshToken"), "user")
    /\ event' = [op |-> "otherTab", phase |-> "storage"]
    /\ ret' = << >>
    /\ pushed' = << >>
    /\ fetches' = 0
    /\ pre' = Snapshot
    /\ UNCHANGED <<apiVars, pageVars>>
    /\ UNCHANGED <<token, user, isLoading, inflight>>

NextTabs ==
    \/ Next
    \/ OtherTab

SpecTabs == Init /\ [][NextTabs]_vars

-----------------------------------------------------------------------------
(* The dashboard pages.  They are rendered inside DashboardLayout, take     *)
(* token and handleUnauthorized from useAuth(), and fetch with              *)
(* `Bearer ${token}` themselves.  A request site is named by the source line *)
(* of its fetch().                                                          *)

DashboardSites ==
    {"dashboard/page.tsx:113", "dashboard/page.tsx:144",
     "dashboard/page.tsx:181", "dashboard/page.tsx:217"}

DetailsSites ==
    {"dashboard/details/page.tsx:227", "dashboard/details/page.tsx:273",
     "dashboard/details/page.tsx:276", "dashboard/details/page.tsx:323",
     "dashboard/details/page.tsx:350"}

TransactionsSites ==
    {"dashboard/transactions/page.tsx:110", "dashboard/transactions/page.tsx:145",
     "dashboard/transactions/page.tsx:505", "dashboard/transactions/page.tsx:575",
     "dashboard/transactions/page.tsx:620"}

ProgressSites == {"unnamed/part_002:181"}

InsightsSites == {"unnamed/part_003:118"}

PageSites ==
    DashboardSites \cup DetailsSites \cup TransactionsSites
        \cup ProgressSites \cup InsightsSites

\* the sites whose handler tests response.status === 401 and calls
\* handleUnauthorized(): all but the dashboard's /insights and /progress
\* requests and the details page's two period-insights requests
Checks401(site) ==
    site \notin {"dashboard/page.tsx:144", "dashboard/page.tsx:181",
                 "dashboard/details/page.tsx:273", "dashboard/details/page.tsx:276"}

\* the request the same handler sends next once this one is answered:
\* fetchDashboardData awaits /dashboard, then /insights, then /progress
FollowUp(site) ==
    CASE site = "dashboard/page.tsx:113" -> "dashboard/page.tsx:144"
      [] site = "dashboard/page.tsx:144" -> "dashboard/page.tsx:181"
      [] OTHER -> NULL

\* the requests a page handler sends before its first await: one, or the two
\* of fetchInsights' Promise.all
HandlerRequests ==
    {{site} : site \in PageSites \ {"dashboard/page.tsx:144", "dashboard/page.tsx:181",
                                    "dashboard/details/page.tsx:273",
                                    "dashboard/details/page.tsx:276"}}
        \cup {{"dashboard/details/page.tsx:273", "dashboard/details/page.tsx:276"}}

PageRequest(site, t) ==
    [op |-> "page", site |-> site, Authorization |-> <<"Bearer", t>>]

\* a page handler up to its first await
PageFetchCall ==
    \E sites \in HandlerRequests :
        /\ ~isLoading
        /\ isAuthenticated
        /\ BagCardinality(inflight) + Cardinality(sites) <= MaxInflight
        /\ inflight' = inflight (+) SetToBag({PageRequest(site, token) : site \in sites})
        /\ event' = [op |-> "page", phase |-> "call", sites |-> sites]
        /\ ret' = << >>
        /\ pushed' = << >>
        /\ fetches' = Cardinality(sites)
        /\ pre' = Snapshot
        /\ UNCHANGED <<apiVars, pageVars>>
        /\ UNCHANGED <<storage, token, user, isLoading>>

\* a page handler from the answer to one of its requests on
PageFetchResponse ==
    \E req \in BagToSet(inflight), o \in FetchOutcomes :
        /\ req.op = "page"
        /\ LET handled == o.net = "response" /\ o.status = 401 /\ Checks401(req.site)
               next == IF o.net = "response" /\ ~handled THEN FollowUp(req.site) ELSE NULL
           IN  /\ IF handled
                  THEN handleUnauthorized
                  ELSE /\ pushed' = << >>
                       /\ UNCHANGED <<storage, token, user>>
               /\ IF next = NULL
                  THEN /\ inflight' = Settle(req)
                       /\ fetches' = 0
                  ELSE /\ inflight' = Settle(req) (+)
                                SetToBag({[req EXCEPT !.site = next]})
                       /\ fetches' = 1
        /\ event' = [op |-> "page", phase |-> "response", site |-> req.site,
                     outcome |-> o]
        /\ ret' = << >>
        /\ pre' = Snapshot
        /\ UNCHANGED <<apiVars, pageVars>>
        /\ UNCHANGED isLoading

\* what DashboardLayout returns: the spinner while isLoading, null while not
\* authenticated, the shell with {children} otherwise
DashboardLayout ==
    IF isLoading THEN "spinner"
    ELSE IF ~isAuthenticated THEN "null"
    ELSE "children"

\* what the component returned by withAuth(Component) returns
AuthenticatedComponent ==
    IF isLoading THEN "spinner"
    ELSE IF ~isAuthenticated THEN "null"
    ELSE "Component"

\* the render after which a guard's effect runs: the first one of a mount, or
\* one in which isLoading or isAuthenticated (its dependencies) changed
GuardRendered ==
    \/ event.op \in {"mount", "init"}
    \/ event.op \in {"page", "logout", "login"} /\ Truthy(pre.token) # Truthy(token)

\* the step the guard's effect follows, as the next steps see it
GuardAfter ==
    CASE event.op = "page" -> "unauthorized"
      [] event.op = "mount" -> event.after
      [] OTHER -> event.op

\* the effect of DashboardLayout that pushes whenever not authenticated
LayoutEffect_whileLoading ==
    /\ GuardRendered
    /\ IF ~isAuthenticated
       THEN pushed' = Append(pushed, "/login")
       ELSE UNCHANGED pushed
    /\ event' = [op |-> "layout", phase |-> "effect", after |-> GuardAfter]
    /\ ret' = << >>
    /\ fetches' = 0
    /\ pre' = Snapshot
    /\ UNCHANGED <<apiVars, pageVars>>
    /\ UNCHANGED <<storage, token, user, isLoading, inflight>>

\* the effect of DashboardLayout.  pushed keeps the routes of the step it
\* follows and adds the effect's.
LayoutEffect ==
    /\ GuardRendered
    /\ IF ~isLoading /\ ~isAuthenticated
       THEN pushed' = Append(pushed, "/login")
       ELSE UNCHANGED pushed
    /\ event' = [op |-> "layout", phase |-> "effect", after |-> GuardAfter]
    /\ ret' = << >>
    /\ fetches' = 0
    /\ pre' = Snapshot
    /\ UNCHANGED <<apiVars, pageVars>>
    /\ UNCHANGED <<storage, token, user, isLoading, inflight>>

\* the effect of the component returned by withAuth
WithAuthEffect ==
    /\ GuardRendered
    /\ IF ~isLoading /\ ~isAuthenticated
       THEN pushed' = Append(pushed, "/login")
       ELSE UNCHANGED pushed
    /\ event' = [op |-> "withAuth", phase |-> "effect", after |-> GuardAfter]
    /\ ret' = << >>
    /\ fetches' = 0
    /\ pre' = Snapshot
    /\ UNCHANGED <<apiVars, pageVars>>
    /\ UNCHANGED <<storage, token, user, isLoading, inflight>>

NextPages ==
    \/ InitEffect
    \/ LoginCall
    \/ LoginResponse
    \/ Logout
    \/ Reload
    \/ PageFetchCall
    \/ PageFetchResponse
    \/ LayoutEffect

SpecPages == Init /\ [][NextPages]_vars

\* a route behind either guard, with the operations that start and end a
\* session
NextGuard ==
    \/ InitEffect
    \/ LoginCall
    \/ LoginResponse
    \/ Logout
    \/ Reload
    \/ LayoutEffect
    \/ WithAuthEffect

SpecGuard == Init /\ [][NextGuard]_vars

-----------------------------------------------------------------------------
(* The API client (lib/api.ts).  It keeps the access token in a module-level *)
(* variable and in the same localStorage key as AuthProvider.                *)

\* what getAccessToken() returns; it also leaves that value in the cache
getAccessToken ==
    IF Truthy(accessToken) THEN accessToken ELSE getItem(storage, "accessToken")

setAccessToken(t) ==
    /\ accessToken' = t
    /\ storage' = IF Truthy(t)
                  THEN setItem(storage, "accessToken", t)
                  ELSE removeItem(storage, "accessToken")

\* the authApi methods, by the endpoint they pass to fetchApi
Endpoints == {"/auth/login", "/auth/logout", "/auth/profile"}

ApiAuthData == [accessToken : Tokens, user : Users]

ApiOutcomes(endpoint) ==
    {NetworkError} \cup {Unreadable(ok) : ok \in BOOLEAN}
        \cup {Readable(FALSE, d) : d \in ErrorData}
        \cup (IF endpoint = "/auth/login"
              THEN {Readable(TRUE, d) : d \in ApiAuthData}
              ELSE {Readable(TRUE, [detail |-> NULL])})

\* fetchApi returns response.json(); it throws when fetch rejects, when the
\* response is not ok and when the body of an ok response is not JSON
FetchApiThrows(o) == o.net = "error" \/ ~o.ok \/ ~o.json

\* an authApi method up to the await in fetchApi
FetchApiCall ==
    \E endpoint \in Endpoints :
        /\ ~isLoading
        /\ CanSend
        /\ LET t == getAccessToken
               req == [op |-> "api", endpoint |-> endpoint,
                       Authorization |-> IF Truthy(t) THEN <<"Bearer", t>> ELSE << >>]
           IN  /\ accessToken' = t
               /\ inflight' = Send(req)
               /\ event' = [op |-> "api", phase |-> "call", endpoint |-> endpoint,
                            request |-> req]
        /\ ret' = << >>
        /\ pushed' = << >>
        /\ fetches' = 1
        /\ pre' = Snapshot
        /\ UNCHANGED <<storage, token, user, isLoading, pageVars>>

\* the method from the settling of fetch on: login stores the token of the
\* response, logout clears it, getProfile returns the body
FetchApiResponse ==
    \E req \in BagToSet(inflight) :
        /\ req.op = "api"
        /\ \E o \in ApiOutcomes(req.endpoint) :
            /\ inflight' = Settle(req)
            /\ IF FetchApiThrows(o)
               THEN /\ ret' = <<[threw |-> "ApiError"]>>
                    /\ UNCHANGED <<storage, accessToken>>
               ELSE /\ ret' = <<o.data>>
                    /\ CASE req.endpoint = "/auth/login" ->
                                setAccessToken(o.data.accessToken)
                         [] req.endpoint = "/auth/logout" ->
                                setAccessToken(NULL)
                         [] OTHER -> UNCHANGED <<storage, accessToken>>
            /\ event' = [op |-> "api", phase |-> "response",
                         endpoint |-> req.endpoint, outcome |-> o]
        /\ pushed' = << >>
        /\ fetches' = 0
        /\ pre' = Snapshot
        /\ UNCHANGED <<token, user, isLoading, pageVars>>

\* AuthProvider and the API client in one application
NextApi ==
    \/ InitEffect
    \/ LoginCall
    \/ LoginResponse
    \/ Logout
    \/ FetchApiCall
    \/ FetchApiResponse

SpecApi == Init /\ [][NextApi]_vars

-----------------------------------------------------------------------------
(* The event bus (EVENTS.TRANSACTIONS_UPDATED on window) and the two pages   *)
(* that use it: DashboardPage subscribes while it is mounted, DetailsPage    *)
(* emits after a delete or an add.  DetailsPage keeps the filters, the       *)
(* current page and the last /transactions answer in its React state.        *)

pageSize == 50

Categories == {"All", "Food"}

TimeFilters == {"all", "week"}

\* data.total of a /transactions answer: none, one full page, and the first
\* totals that need two and three pages
Totals == {0, pageSize, pageSize + 1, 2 * pageSize + 1}

\* Math.ceil(totalTransactions / pageSize)
totalPages == (totalTransactions + pageSize - 1) \div pageSize

Max(a, b) == IF a >= b THEN a ELSE b

Min(a, b) == IF a <= b THEN a ELSE b

\* getDateRange().startDate for a time filter
getDateRange(time) == IF time = "week" THEN "now-7d" ELSE NULL

\* the query fetchData builds from the state of the render it was created in
Params(page, category, time) ==
    [page |-> page,
     category |-> IF category # "All" THEN category ELSE NULL,
     start_date |-> getDateRange(time)]

\* the request of the n-th fetchData call
TransactionsRequest(params, t, n) ==
    [op |-> "transactions", params |-> params, seq |-> n,
     Authorization |-> <<"Bearer", t>>]

\* the listener a DashboardPage registers: a closure over its token
Callback(id, t) == [id |-> id, token |-> t]

\* window.addEventListener(EVENTS.TRANSACTIONS_UPDATED, callback)
onTransactionsUpdated(callback) == Append(listeners, callback)

\* the function onTransactionsUpdated returned: window.removeEventListener
Unsubscribe(callback) == SelectSeq(listeners, LAMBDA l : l # callback)

\* an emit that dispatches the event twice
emitTransactionsUpdated_twice == listeners \o listeners

\* window.dispatchEvent(new CustomEvent(...)): the listeners it calls, in order
emitTransactionsUpdated == listeners

\* the GET /dashboard requests the invoked callbacks send (fetchDashboardData)
CallbackRequests(inv) ==
    LET reqs == {PageRequest("dashboard/page.tsx:113", inv[i].token) :
                    i \in {j \in DOMAIN inv : Truthy(inv[j].token)}}
    IN  [r \in reqs |->
            Cardinality({i \in DOMAIN inv :
                PageRequest("dashboard/page.tsx:113", inv[i].token) = r})]

DetailsRequests == {req \in BagToSet(inflight) : req.op \in {"transactions", "delete", "add"}}

\* the mounted page is unmounted: its state is dropped and the cleanup of the
\* subscription effect removes the listener
Unmount ==
    /\ route' = NULL
    /\ listeners' = << >>
    /\ currentPage' = 1
    /\ activeFilter' = "All"
    /\ timeFilter' = "all"
    /\ totalTransactions' = 0
    /\ transactions' = << >>

\* DashboardPage is mounted on /dashboard: its first fetchDashboardData, and
\* the subscription to the event bus
DashboardMount ==
    /\ ~isLoading
    /\ isAuthenticated
    /\ route # "dashboard"
    /\ CanSend
    /\ subscriptions < MaxSubscriptions
    /\ route' = "dashboard"
    /\ subscriptions' = subscriptions + 1
    /\ listeners' = onTransactionsUpdated(Callback(subscriptions + 1, token))
    /\ inflight' = Send(PageRequest("dashboard/page.tsx:113", token))
    /\ currentPage' = 1
    /\ activeFilter' = "All"
    /\ timeFilter' = "all"
    /\ totalTransactions' = 0
    /\ transactions' = << >>
    /\ invoked' = << >>
    /\ event' = [op |-> "dashboard", phase |-> "mount"]
    /\ ret' = << >>
    /\ pushed' = << >>
    /\ fetches' = 1
    /\ pre' = Snapshot
    /\ UNCHANGED <<storage, token, user, isLoading, apiVars, issued>>

\* DetailsPage is mounted on /dashboard/details, once the requests of an
\* earlier DetailsPage have settled: the page-reset effect, then the first
\* fetchData.  DashboardPage, if it was mounted, unsubscribes.
DetailsMount ==
    /\ ~isLoading
    /\ isAuthenticated
    /\ route # "details"
    /\ DetailsRequests = {}
    /\ CanSend
    /\ issued < MaxIssued
    /\ route' = "details"
    /\ listeners' = IF route = "dashboard"
                    THEN Unsubscribe(listeners[Len(listeners)])
                    ELSE listeners
    /\ currentPage' = 1
    /\ activeFilter' = "All"
    /\ timeFilter' = "all"
    /\ totalTransactions' = 0
    /\ transactions' = << >>
    /\ issued' = issued + 1
    /\ inflight' = Send(TransactionsRequest(Params(1, "All", "all"), token, issued + 1))
    /\ invoked' = << >>
    /\ event' = [op |-> "details", phase |-> "mount"]
    /\ ret' = << >>
    /\ pushed' = << >>
    /\ fetches' = 1
    /\ pre' = Snapshot
    /\ UNCHANGED <<storage, token, user, isLoading, apiVars, subscriptions>>

\* a filter setter that changes a filter, and the effects of the renders that
\* follow: the page-reset effect calls setCurrentPage(1) and the fetchData
\* effect of the same render fetches with the page of that render; when the
\* page was not 1, the next render's fetchData fetches page 1
FilterChange(category, time) ==
    LET first == TransactionsRequest(Params(currentPage, category, time),
                                     token, issued + 1)
        second == TransactionsRequest(Params(1, category, time), token, issued + 2)
        sent == IF currentPage = 1 THEN {first} ELSE {first, second}
    IN  /\ ~isLoading
        /\ isAuthenticated
        /\ route = "details"
        /\ BagCardinality(inflight) + Cardinality(sent) <= MaxInflight
        /\ issued + Cardinality(sent) <= MaxIssued
        /\ activeFilter' = category
        /\ timeFilter' = time
        /\ currentPage' = 1
        /\ inflight' = inflight (+) SetToBag(sent)
        /\ issued' = issued + Cardinality(sent)
        /\ fetches' = Cardinality(sent)
        /\ invoked' = << >>
        /\ event' = [op |-> "filter", phase |-> "change"]
        /\ ret' = << >>
        /\ pushed' = << >>
        /\ pre' = Snapshot
        /\ UNCHANGED <<storage, token, user, isLoading, apiVars, route, listeners,
                       totalTransactions, transactions, subscriptions>>

SetActiveFilter ==
    \E category \in Categories \ {activeFilter} : FilterChange(category, timeFilter)

SetTimeFilter ==
    \E time \in TimeFilters \ {timeFilter} : FilterChange(activeFilter, time)

\* setCurrentPage(page) from a pagination button, and the fetchData effect of
\* the render that follows
PageChange(page, button) ==
    /\ ~isLoading
    /\ isAuthenticated
    /\ route = "details"
    /\ totalPages > 1
    /\ page # currentPage
    /\ CanSend
    /\ issued < MaxIssued
    /\ currentPage' = page
    /\ inflight' = Send(TransactionsRequest(
                       Params(page, activeFilter, timeFilter), token, issued + 1))
    /\ issued' = issued + 1
    /\ fetches' = 1
    /\ invoked' = << >>
    /\ event' = [op |-> "paginate", phase |-> "click", button |-> button]
    /\ ret' = << >>
    /\ pushed' = << >>
    /\ pre' = Snapshot
    /\ UNCHANGED <<storage, token, user, isLoading, apiVars, route, listeners,
                   activeFilter, timeFilter, totalTransactions, transactions,
                   subscriptions>>

\* First and Prev are disabled on page 1, Next and Last on the last page
FirstClick == currentPage # 1 /\ PageChange(1, "First")

PrevClick == currentPage # 1 /\ PageChange(Max(1, currentPage - 1), "Prev")

NextClick ==
    currentPage # totalPages /\ PageChange(Min(totalPages, currentPage + 1), "Next")

LastClick == currentPage # totalPages /\ PageChange(totalPages, "Last")

TransactionsOutcomes ==
    {NetworkError} \cup {[net |-> "response", status |-> st] : st \in {401, 500}}
        \cup {[net |-> "response", status |-> 200, total |-> n] : n \in Totals}

\* fetchData from the settling of its fetch on.  The setters change nothing
\* once the page that sent the request is unmounted.
TransactionsResponse ==
    \E req \in BagToSet(inflight), o \in TransactionsOutcomes :
        /\ req.op = "transactions"
        /\ inflight' = Settle(req)
        /\ IF o.net = "response" /\ o.status = 401
           THEN /\ handleUnauthorized
                /\ Unmount
           ELSE /\ pushed' = << >>
                /\ UNCHANGED <<storage, token, user, route, listeners, currentPage,
                               activeFilter, timeFilter>>
                /\ IF o.net = "response" /\ o.status = 200 /\ route = "details"
                   THEN /\ transactions' = <<[params |-> req.params, seq |-> req.seq]>>
                        /\ totalTransactions' = o.total
                   ELSE UNCHANGED <<transactions, totalTransactions>>
        /\ invoked' = << >>
        /\ event' = [op |-> "transactions", phase |-> "response", outcome |-> o,
                     request |-> req]
        /\ ret' = << >>
        /\ fetches' = 0
        /\ pre' = Snapshot
        /\ UNCHANGED <<isLoading, apiVars, issued, subscriptions>>

\* handleDelete or handleAddTransaction up to its await.  The handler keeps
\* the fetchData of the render it was created in.
MutationCall(kind) ==
    /\ ~isLoading
    /\ route = "details"
    /\ CanSend
    /\ issued + Cardinality({r \in DetailsRequests : r.op # "transactions"}) < MaxIssued
    /\ inflight' = Send([op |-> kind,
                         fetchData |-> Params(currentPage, activeFilter, timeFilter),
                         Authorization |-> <<"Bearer", token>>])
    /\ invoked' = << >>
    /\ event' = [op |-> kind, phase |-> "call"]
    /\ ret' = << >>
    /\ pushed' = << >>
    /\ fetches' = 1
    /\ pre' = Snapshot
    /\ UNCHANGED <<storage, token, user, isLoading, apiVars, route, listeners,
                   currentPage, activeFilter, timeFilter, totalTransactions,
                   transactions, issued, subscriptions>>

\* the handler from the settling of its fetch on: after a 2xx answer,
\* fetchData() and emitTransactionsUpdated()
MutationResponse(req, o) ==
    /\ IF o.net = "response" /\ o.status = 401
       THEN /\ handleUnauthorized
            /\ Unmount
            /\ inflight' = Settle(req)
            /\ invoked' = << >>
            /\ fetches' = 0
            /\ UNCHANGED issued
       ELSE /\ pushed' = << >>
            /\ UNCHANGED <<storage, token, user, route, listeners, currentPage,
                           activeFilter, timeFilter, totalTransactions,
                           transactions>>
            /\ IF o.net = "response" /\ o.status = 200
               THEN /\ invoked' = emitTransactionsUpdated
                    /\ issued' = issued + 1
                    /\ inflight' = (Settle(req)
                          (+) SetToBag({TransactionsRequest(req.fetchData,
                                           req.Authorization[2], issued + 1)}))
                          (+) CallbackRequests(invoked')
                    /\ fetches' = 1 + Len(invoked')
               ELSE /\ invoked' = << >>
                    /\ inflight' = Settle(req)
                    /\ fetches' = 0
                    /\ UNCHANGED issued
    /\ event' = [op |-> req.op, phase |-> "response", outcome |-> o,
                 emits |-> IF o.net = "response" /\ o.status = 200 THEN 1 ELSE 0]
    /\ ret' = << >>
    /\ pre' = Snapshot
    /\ UNCHANGED <<isLoading, apiVars, subscriptions>>

\* a row's delete button, once confirm() is accepted; rows exist when an
\* answer listed transactions
DeleteCall ==
    /\ transactions # << >>
    /\ totalTransactions > 0
    /\ MutationCall("delete")

DeleteResponse ==
    \E req \in BagToSet(inflight), o \in FetchOutcomes :
        /\ req.op = "delete"
        /\ MutationResponse(req, o)

\* the submit of the Add Transaction form with a name and an amount
AddCall ==
    /\ Truthy(token)
    /\ MutationCall("add")

AddResponse ==
    \E req \in BagToSet(inflight), o \in FetchOutcomes :
        /\ req.op = "add"
        /\ MutationResponse(req, o)

\* fetchDashboardData from the answer to one of its requests on; a 401 on
\* GET /dashboard ends the session and the layout unmounts the page
DashboardResponse ==
    \E req \in BagToSet(inflight), o \in FetchOutcomes :
        /\ req.op = "page"
        /\ req.site \in DashboardSites
        /\ LET handled == o.net = "response" /\ o.status = 401 /\ Checks401(req.site)
               next == IF o.net = "response" /\ ~handled THEN FollowUp(req.site) ELSE NULL
           IN  /\ IF handled
                  THEN /\ handleUnauthorized
                       /\ Unmount
                  ELSE /\ pushed' = << >>
                       /\ UNCHANGED <<storage, token, user, route, listeners,
                                      currentPage, activeFilter, timeFilter,
                                      totalTransactions, transactions>>
               /\ IF next = NULL
                  THEN /\ inflight' = Settle(req)
                       /\ fetches' = 0
                  ELSE /\ inflight' = Settle(req) (+)
                                SetToBag({[req EXCEPT !.site = next]})
                       /\ fetches' = 1
        /\ invoked' = << >>
        /\ event' = [op |-> "page", phase |-> "response", site |-> req.site,
                     outcome |-> o]
        /\ ret' = << >>
        /\ pre' = Snapshot
        /\ UNCHANGED <<isLoading, apiVars, issued, subscriptions>>

\* DetailsPage alone
NextDetails ==
    \/ InitEffect
    \/ Reload
    \/ DetailsMount
    \/ SetActiveFilter
    \/ SetTimeFilter
    \/ FirstClick
    \/ PrevClick
    \/ NextClick
    \/ LastClick
    \/ TransactionsResponse
    \/ DeleteCall
    \/ DeleteResponse
    \/ AddCall
    \/ AddResponse

SpecDetails == Init /\ [][NextDetails]_vars

\* the two pages with the filters and the pagination left alone
NextBus ==
    \/ InitEffect
    \/ Reload
    \/ DashboardMount
    \/ DetailsMount
    \/ TransactionsResponse
    \/ DeleteCall
    \/ DeleteResponse
    \/ AddCall
    \/ AddResponse
    \/ DashboardResponse

SpecBus == Init /\ [][NextBus]_vars

-----------------------------------------------------------------------------
(* Which handler step ran last *)

Responded(op) == event.op = op /\ event.phase = "response"

\* the transport gave a readable 2xx response
Succeeded == ~Throws(event.outcome) /\ event.outcome.ok

\* the transport gave a readable non-2xx response
Rejected == ~Throws(event.outcome) /\ ~event.outcome.ok

Cleared == storage = NoSession /\ token = NULL /\ user = NULL

Untouched == storage = pre.storage /\ token = pre.token /\ user = pre.user

\* how many times a step invoked a callback
Occurrences(seq, x) == Cardinality({i \in DOMAIN seq : seq[i] = x})

\* how many times the handler step called emitTransactionsUpdated()
Emits == IF "emits" \in DOMAIN event THEN event.emits ELSE 0

-----------------------------------------------------------------------------
(* Properties *)

\* C1: after a login that the server answered with {access_token,
\* refresh_token, user}, the three storage keys and the in-memory session are
\* exactly that triple and login returned success, whatever was there before.
C1_LoginInstallsTriple ==
    (Responded("login") /\ Succeeded) =>
        LET d == event.outcome.data
        IN  /\ getItem(storage, "accessToken") = d.access_token
            /\ getItem(storage, "refreshToken") = d.refresh_token
            /\ JSONparse(getItem(storage, "user")) = d.user
            /\ token = d.access_token
            /\ user = d.user
            /\ ret = <<[success |-> TRUE]>>

\* a login succeeded over an earlier session that differed in every field
C1_Witness ==
    /\ Responded("login") /\ Succeeded
    /\ pre.storage \in PersistedSessions
    /\ pre.storage.accessToken # event.outcome.data.access_token
    /\ pre.storage.refreshToken # event.outcome.data.refresh_token
    /\ pre.user \in Users \ {event.outcome.data.user}

\* C2: logout(), in any state, ends with the three storage keys removed, token
\* and user null and one navigation to "/", makes no network call and returns
\* nothing.
C2_LogoutClears ==
    (event.op = "logout") =>
        /\ Cleared
        /\ pushed = <<"/">>
        /\ fetches = 0
        /\ ret = << >>

\* logout ran on a partially present session: a token without a user record
C2_Witness ==
    /\ event.op = "logout"
    /\ Truthy(pre.storage.accessToken)
    /\ Truthy(pre.storage.refreshToken)
    /\ ~Truthy(pre.storage.user)

C4_RefreshNetworkErrorClears ==
    (Responded("refresh") /\ Throws(event.outcome)) =>
        (ret = <<FALSE>> /\ Cleared)

\* C5: when authFetch receives a 401, storage and memory hold no session, one
\* navigation to "/" was issued and the response is returned as received.
C5_UnauthorizedClears ==
    (Responded("authFetch") /\ event.outcome.net = "response"
        /\ event.outcome.status = 401) =>
        /\ Cleared
        /\ pushed = <<"/">>
        /\ ret = <<event.outcome>>

\* a 401 arrived while a whole session was present
C5_Witness ==
    /\ Responded("authFetch")
    /\ event.outcome.net = "response"
    /\ event.outcome.status = 401
    /\ pre.storage \in PersistedSessions
    /\ Truthy(pre.token)
    /\ pre.user \in Users

\* C6: once initialization is done, the access token and the user are both
\* present or both absent, in memory and in storage.
C6_TokenAndUserTogether ==
    ~isLoading =>
        /\ Truthy(token) <=> Truthy(user)
        /\ Truthy(getItem(storage, "accessToken")) <=> Truthy(getItem(storage, "user"))

\* C7: a successful refresh changes the access token, in storage and in
\* memory, to the one the endpoint returned and nothing else, and returns true.
C7_RefreshFrame ==
    (Responded("refresh") /\ Succeeded) =>
        /\ storage = setItem(pre.storage, "accessToken", event.outcome.data.access_token)
        /\ token = event.outcome.data.access_token
        /\ user = pre.user
        /\ pushed = << >>
        /\ ret = <<TRUE>>

\* a refresh replaced the access token of a whole session by a different one
C7_Witness ==
    /\ Responded("refresh") /\ Succeeded
    /\ pre.storage \in PersistedSessions
    /\ pre.storage.accessToken # event.outcome.data.access_token
    /\ pre.token # event.outcome.data.access_token
    /\ pre.user \in Users

\* C8: refreshToken called with no stored refresh token returns false, makes no
\* network call and changes neither storage nor memory.
C8_RefreshWithoutToken ==
    (event.op = "refresh" /\ event.phase = "call"
        /\ ~Truthy(getItem(pre.storage, "refreshToken"))) =>
        /\ ret = <<FALSE>>
        /\ fetches = 0
        /\ ~\E r \in {NULL, ""} : BagIn([op |-> "refresh", refresh_token |-> r], inflight)
        /\ Untouched

\* refreshToken was called with no refresh token stored
C8_Witness ==
    /\ event.op = "refresh" /\ event.phase = "call"
    /\ ~Truthy(getItem(pre.storage, "refreshToken"))
    /\ ret = <<FALSE>>

\* C9: a login or register that fails, by rejection or at the network level,
\* returns {success: false, error} and leaves storage and memory as they were.
C9_FailureWritesNothing ==
    ((Responded("login") \/ Responded("register")) /\ ~Succeeded) =>
        /\ Len(ret) = 1
        /\ DOMAIN ret[1] = {"success", "error"}
        /\ ret[1].success = FALSE
        /\ Truthy(ret[1].error)
        /\ Untouched

\* a register was rejected by the server while a whole session was present
C9_Witness ==
    /\ Responded("register") /\ Rejected
    /\ pre.storage \in PersistedSessions
    /\ Truthy(pre.token)

\* C10: a register that succeeds does to storage, token, user, the navigation
\* and the return value what login does for the same response from the same
\* state.
C10_RegisterAsLogin ==
    [][(Responded("register")' /\ Succeeded') => login(event'.outcome)]_vars

\* a register succeeded over an earlier, different session
C10_Witness ==
    /\ Responded("register") /\ Succeeded
    /\ pre.storage \in PersistedSessions
    /\ pre.storage.accessToken # event.outcome.data.access_token
    /\ pre.user \in Users \ {event.outcome.data.user}

\* C11: initialization from storage right after a logout() finds no session
\* (token and user null, isAuthenticated false), and a logout() right after a
\* logout() changes neither storage nor memory.
C11_LogoutThenInit ==
    /\ []((event.op = "init" /\ event.after = "logout") =>
            (token = NULL /\ user = NULL /\ ~isAuthenticated /\ storage = NoSession))
    /\ [][(event.op = "logout" /\ event'.op = "logout") =>
            (storage' = storage /\ token' = token /\ user' = user)]_vars

\* the page was loaded again right after a logout, and the mount effect ran
C11_Witness ==
    /\ event.op = "init"
    /\ event.after = "logout"
    /\ ~isLoading

\* C12: when the stored user record is present and does not parse, the mount
\* effect ends with user null, the user record removed from storage, the
\* stored access token as it was, and isLoading false.
C12_CorruptUserDiscarded ==
    (event.op = "init" /\ Truthy(getItem(pre.storage, "user"))
        /\ JSONparse(getItem(pre.storage, "user")) = SyntaxError) =>
        /\ user = NULL
        /\ getItem(storage, "user") = NULL
        /\ getItem(storage, "accessToken") = getItem(pre.storage, "accessToken")
        /\ ~isLoading

\* C13: the mount effect leaves an in-memory session exactly when the stored
\* access token and the stored user record are both present and the record
\* parses; the session is then the stored one.
C13_RestoreExactlyWhenValid ==
    (event.op = "init") =>
        LET storedToken == getItem(pre.storage, "accessToken")
            storedUser == getItem(pre.storage, "user")
            valid == /\ Truthy(storedToken)
                     /\ Truthy(storedUser)
                     /\ JSONparse(storedUser) # SyntaxError
        IN  /\ isAuthenticated <=> valid
            /\ valid => (token = storedToken /\ user = JSONparse(storedUser))
            /\ ~valid => token = NULL

\* C14: isLoading is true on mount, the mount effect is the step that clears
\* it, whatever it reads, and no step of login, register, logout, refreshToken
\* or authFetch changes it.
C14_LoadingClearedOnce ==
    /\ isLoading = TRUE
    /\ [][/\ event'.op = "mount" => isLoading'
          /\ event'.op = "init" => (isLoading /\ ~isLoading')
          /\ event'.op \notin {"mount", "init"} => (isLoading' = isLoading)]_vars

\* the mount effect found a whole session, and a later login response left
\* the flag cleared
C14_Witness ==
    /\ Responded("login")
    /\ ~isLoading
    /\ Truthy(pre.token)

\* C15: the request authFetch sends carries, as Authorization, the bearer
\* form of the access token that is in storage when authFetch is called,
\* whatever the token of the React state and whatever Authorization header
\* the caller passed; the caller's other headers are sent as given.
C15_BearerFromStorage ==
    (event.op = "authFetch" /\ event.phase = "call") =>
        LET stored == getItem(storage, "accessToken")
            sent == event.request.headers
        IN  /\ BagIn(event.request, inflight)
            /\ Truthy(stored) => sent["Authorization"] = <<"Bearer", stored>>
            /\ ~Truthy(stored) => sent["Authorization"] = << >>
            /\ \A k \in DOMAIN event.headers \ {"Authorization"} :
                   sent[k] = event.headers[k]

\* authFetch was called with an Authorization header of the caller while
\* another tab had replaced the stored token
C15_Witness ==
    /\ event.op = "authFetch" /\ event.phase = "call"
    /\ "Authorization" \in DOMAIN event.headers
    /\ Truthy(token)
    /\ Truthy(getItem(storage, "accessToken"))
    /\ token # getItem(storage, "accessToken")

\* a 401 answered an authFetch
Unauthorized401 ==
    /\ Responded("authFetch")
    /\ event.outcome.net = "response"
    /\ event.outcome.status = 401

\* C16: no step of an operation issues more than one transport request; the
\* step up to the await adds to the pending requests exactly what it fetched,
\* and the step that handles the answer fetches nothing and leaves no request
\* pending that was not pending before: no retry, no renewal after a 401.
C16_NoRetry ==
    [][/\ fetches' <= 1
       /\ event'.phase = "call" =>
            BagCardinality(inflight') = BagCardinality(inflight) + fetches'
       /\ event'.phase = "response" =>
            /\ fetches' = 0
            /\ BagCardinality(inflight') = BagCardinality(inflight) - 1
            /\ \A req \in BagToSet(inflight') :
                   CopiesIn(req, inflight') <= CopiesIn(req, inflight)]_vars

\* a 401 answered an authFetch while a refresh token was stored, and nothing
\* was sent
C16_Witness ==
    /\ Unauthorized401
    /\ Truthy(getItem(pre.storage, "refreshToken"))
    /\ fetches = 0
    /\ inflight = EmptyBag

\* C17: whatever the transport does, login and register return {success} or
\* {success: false, error} and refreshToken returns a boolean; none of them
\* throws.
C17_NeverRaises ==
    /\ (Responded("login") \/ Responded("register")) =>
          /\ Len(ret) = 1
          /\ "threw" \notin DOMAIN ret[1]
          /\ "success" \in DOMAIN ret[1]
          /\ ret[1].success \in BOOLEAN
          /\ ret[1].success => DOMAIN ret[1] = {"success"}
          /\ ~ret[1].success => DOMAIN ret[1] = {"success", "error"}
    /\ Responded("refresh") => (ret = <<TRUE>> \/ ret = <<FALSE>>)
    /\ (event.op = "refresh" /\ event.phase = "call") =>
          (ret = << >> \/ ret = <<FALSE>>)

\* a login got a response whose body could not be read
C17_Witness ==
    /\ Responded("login")
    /\ event.outcome.net = "response"
    /\ ~event.outcome.json
    /\ Len(ret) = 1

\* C20: the step in which handleUnauthorized runs does to storage, token, user
\* and the navigation what logout() does from the same state.
C20_UnauthorizedAsLogout ==
    [][Unauthorized401' => logout]_vars

\* handleUnauthorized ran on a session that had a token and no user
C20_Witness ==
    /\ Unauthorized401
    /\ Truthy(pre.token)
    /\ pre.user = NULL
    /\ Truthy(getItem(pre.storage, "refreshToken"))

\* C18: a 401 answer to any bearer request of the dashboard, details,
\* transactions, insights and progress pages clears the session.
C18_Any401ClearsSession ==
    (Responded("page") /\ event.outcome.net = "response"
        /\ event.outcome.status = 401) => Cleared

\* C19: of the navigations issued because a page found the session
\* unauthorized, by handleUnauthorized and by the layout's effect that
\* follows it, the last one targets "/".
C19_EndsOnLanding ==
    ((Responded("page") /\ pushed # << >>)
        \/ (event.op = "layout" /\ event.after = "unauthorized")) =>
        pushed[Len(pushed)] = "/"

\* C21: DashboardLayout renders its children, and the component returned by
\* withAuth renders the wrapped component, only when isLoading is false and
\* isAuthenticated is true; a guard's effect pushes "/login", once, only when
\* isLoading is false and isAuthenticated is false, and nothing is pushed
\* while isLoading is true.
C21_RouteGuard ==
    /\ []((DashboardLayout = "children" \/ AuthenticatedComponent = "Component")
            => (~isLoading /\ isAuthenticated))
    /\ []((event.op \in {"layout", "withAuth"} /\ ~(~isLoading /\ ~isAuthenticated))
            => pushed = << >>)
    /\ [][/\ (event'.op \in {"layout", "withAuth"} /\ pushed' # pushed) =>
                (~isLoading /\ ~isAuthenticated /\ pushed' = Append(pushed, "/login"))
          /\ isLoading' => pushed' = << >>]_vars

\* the guard's effect ran in the first render, while the stored session was
\* not restored yet, and pushed nothing
C21_Witness ==
    /\ event.op = "layout"
    /\ isLoading
    /\ storage \in PersistedSessions
    /\ pushed = << >>

\* C25: the response of a login, register or refresh that was in flight when
\* logout() or handleUnauthorized() ran writes no session field: handled in
\* the very next step, it leaves storage and memory without a session.
C25_InflightResponseWritesNothing ==
    [][((event.op = "logout" \/ Unauthorized401)
          /\ (Responded("login")' \/ Responded("register")' \/ Responded("refresh")'))
        => (storage' = NoSession /\ token' = NULL /\ user' = NULL)]_vars

\* C26: a 401 that answers an authFetch request sent with another access
\* token than the one stored when the answer arrives leaves storage, token
\* and user as they are.
C26_Stale401KeepsSession ==
    [][\A req \in BagToSet(inflight) :
          (/\ req.op = "authFetch"
           /\ inflight' = Settle(req)
           /\ Unauthorized401'
           /\ Truthy(getItem(storage, "accessToken"))
           /\ req.headers["Authorization"]
                 # Authorization(getItem(storage, "accessToken")))
          => UNCHANGED <<storage, token, user>>]_vars

\* C27: once the mount effect has run and no request is in flight,
\* isAuthenticated of AuthProvider is true exactly when the accessToken key
\* is in storage, which is the landing page's check and decides whether
\* authFetch sends a credential.
C27_MemoryAgreesWithStorage ==
    (~isLoading /\ inflight = EmptyBag) =>
        /\ isAuthenticated <=> HomeIsAuthenticated
        /\ isAuthenticated <=> (Authorization(getItem(storage, "accessToken")) # << >>)

\* C22: when authApi.logout() has settled, whatever became of the
\* /auth/logout request, the cached access token and the stored one are
\* cleared.
C22_ApiLogoutClearsLocally ==
    (Responded("api") /\ event.endpoint = "/auth/logout") =>
        /\ accessToken = NULL
        /\ getItem(storage, "accessToken") = NULL

\* C28: the token getAccessToken() returns is the accessToken in storage, and
\* the bearer token of a fetchApi request is the one stored when it is sent.
C28_CacheAgreesWithStorage ==
    /\ getAccessToken = getItem(storage, "accessToken")
    /\ (event.op = "api" /\ event.phase = "call") =>
          event.request.Authorization = Authorization(getItem(storage, "accessToken"))

\* C23: a step invokes a callback once per emitTransactionsUpdated() it makes
\* when the callback is the one the mounted DashboardPage registered and has
\* not unsubscribed, and not at all otherwise: not after the unsubscribe, and
\* not when it is registered after the emit.
C23_EventBus ==
    [][\A id \in 1..(MaxSubscriptions + 1), t \in Tokens :
          Occurrences(invoked', Callback(id, t)) =
              IF route = "dashboard" /\ id = subscriptions /\ t = token
              THEN Emits'
              ELSE 0]_vars

\* a delete sent from DetailsPage was answered after DashboardPage had been
\* mounted for the second time: its callback ran, the first one's did not
C23_Witness ==
    /\ Responded("delete")
    /\ Emits = 1
    /\ subscriptions = 2
    /\ invoked = <<Callback(2, pre.token)>>

\* C24: a step that changes the category filter or the time filter of the
\* mounted DetailsPage leaves currentPage at 1, and every /transactions
\* request sent by that step asks for page 1.
C24_FilterChangeResetsPage ==
    [][(route = "details" /\ route' = "details"
          /\ (activeFilter' # activeFilter \/ timeFilter' # timeFilter)) =>
        /\ currentPage' = 1
        /\ \A req \in BagToSet(inflight') :
              (req.op = "transactions" /\ req.seq > issued) => req.params.page = 1]_vars

\* C29: while DetailsPage is mounted, 1 <= currentPage <= max(1, totalPages).
C29_CurrentPageInRange ==
    route = "details" =>
        (1 <= currentPage /\ currentPage <= Max(1, totalPages))

\* C30: an answer that replaces the displayed transactions is the answer to
\* a request issued after the one whose answer was displayed; and when no
\* /transactions request is in flight and the last one issued was answered,
\* the displayed answer is for the current page and filters.
C30_LatestRequestWins ==
    /\ []((/\ route = "details"
           /\ transactions # << >>
           /\ transactions[1].seq = issued
           /\ \A req \in BagToSet(inflight) : req.op # "transactions")
            => transactions[1].params = Params(currentPage, activeFilter, timeFilter))
    /\ [][(route = "details" /\ route' = "details"
             /\ transactions # << >> /\ transactions' # transactions)
           => transactions'[1].seq > transactions[1].seq]_vars

=============================================================================
